---- MODULE Spec2Model ----
(***************************************************************************)
(* Model of the replicate-mcp server (src/index.ts): the list-tools and    *)
(* call-tool request handlers, and generateImage's create + poll loop.     *)
(*                                                                         *)
(* JavaScript values are tagged records: the tag "t" names the type and a  *)
(* type-specific field carries the value.  Numbers are held in tenths      *)
(* (2 is 20, 0.1 is 1) so that the fractional default stays an integer.    *)
(* An invocation is a slot c of the handler: its position pc[c], its       *)
(* locals, and counters of the remote calls and suspensions it has made.   *)
(***************************************************************************)
EXTENDS Integers, Sequences, FiniteSets, TLC

VARIABLES
    pc,         \* c -> "idle" (request received) | "create" | "poll" | "sleep" | "done"
                \*      (the awaits of index.ts:151, 175, 189 and the handler's returns)
    req,        \* c -> request.params of the invocation: [name, arguments] (index.ts:211)
    sent,       \* c -> sequence of the JSON bodies POSTed by the invocation (index.ts:151-161)
    created,    \* c -> the HTTP response the invocation got to its POST (index.ts:151)
    prediction, \* c -> the parsed create response, local `prediction` (index.ts:167)
    attempts,   \* c -> local `attempts` of the poll loop (index.ts:172)
    polls,      \* c -> number of status-read calls issued by the invocation (index.ts:175)
    polled,     \* c -> set of prediction ids the invocation has read the status of
    sleeps,     \* c -> number of suspensions sleep(POLL_INTERVAL) started (index.ts:189)
    progress,   \* c -> number of status-read responses that let the loop continue
    last,       \* c -> the response to the status-read of the current loop iteration
    thrown,     \* c -> the Error thrown inside the handler's try block, if any (index.ts:232)
    result,     \* c -> the value returned by the call-tool handler (index.ts:222-241)
    listed      \* the last response of the list-tools handler (index.ts:205-207)

vars == <<pc, req, sent, created, prediction, attempts, polls, polled, sleeps, progress,
          last, thrown, result, listed>>

(***************************** bounds **************************************)
\* longest `output` array a status-read response carries
MaxOutputs == 2

(************************* program constants *******************************)
MAX_ATTEMPTS == 60
POLL_INTERVAL == 2000
\* defaults of generateImage, numbers in tenths
DefaultSafetyTolerance == 20
DefaultImagePromptStrength == 1

ToolName == "replicate_image_generate"

(************************* JavaScript values *******************************)
Undefined == [t |-> "undefined"]
Null == [t |-> "null"]
Str(s) == [t |-> "string", s |-> s]
Num(n) == [t |-> "number", n |-> n]
Bool(b) == [t |-> "boolean", b |-> b]
Arr(a) == [t |-> "array", a |-> a]
Obj(f) == [t |-> "object", o |-> f]
\* marks a property that a generated object does not have
Absent == [t |-> "absent"]
EmptyFields == [k \in {} |-> Undefined]

\* !!v
Truthy(v) ==
    CASE v.t = "undefined" -> FALSE
      [] v.t = "null" -> FALSE
      [] v.t = "string" -> v.s # ""
      [] v.t = "number" -> v.n # 0
      [] v.t = "boolean" -> v.b
      [] OTHER -> TRUE

\* typeof v
TypeOf(v) ==
    CASE v.t = "undefined" -> "undefined"
      [] v.t = "string" -> "string"
      [] v.t = "number" -> "number"
      [] v.t = "boolean" -> "boolean"
      [] OTHER -> "object"

\* k in v, for an object v
HasProp(v, k) == v.t = "object" /\ k \in DOMAIN v.o

\* v.k
Get(v, k) == IF HasProp(v, k) THEN v.o[k] ELSE Undefined

\* v || d in the place of v ?? d
Coalesce_Or(v, d) == IF Truthy(v) THEN v ELSE d

\* v ?? d
Coalesce(v, d) == IF v.t \in {"undefined", "null"} THEN d ELSE v

\* an object from a record of choices, without the properties chosen Absent
MkObj(g) == Obj([k \in {k \in DOMAIN g : g[k] # Absent} |-> g[k]])

\* what JSON.stringify keeps of an object: properties that are undefined are dropped
Stringify(v) == Obj([k \in {k \in DOMAIN v.o : v.o[k] # Undefined} |-> v.o[k]])

\* `${v}`
Template(v) ==
    CASE v.t = "string" -> v.s
      [] v.t = "undefined" -> "undefined"
      [] v.t = "null" -> "null"
      [] v.t = "boolean" -> (IF v.b THEN "true" ELSE "false")
      [] OTHER -> "[object Object]"

\* s contains t
Contains(s, t) ==
    \E i \in 1..(Len(s) - Len(t) + 1) : SubSeq(s, i, i + Len(t) - 1) = t

StartsWith(s, t) == Len(s) >= Len(t) /\ SubSeq(s, 1, Len(t)) = t

(****************************** inputs *************************************)
Calls == DOMAIN pc

NoReq == [name |-> "", arguments |-> Undefined]
NoResp == [ok |-> FALSE, status |-> 0, statusText |-> "", text |-> "", json |-> Undefined]
NoResult == [isError |-> FALSE, text |-> ""]
NoThrow == [thrown |-> FALSE, message |-> ""]
NoList == [tools |-> <<>>]

ToolNames == {ToolName, "other_tool"}

\* arguments of the requests of the full lifecycle: absent, without prompt,
\* prompt of another type, prompt alone, and every optional field supplied
CoreArgs ==
    { Undefined,
      Obj(EmptyFields),
      Obj("prompt" :> Num(70)),
      Obj("prompt" :> Null),
      Obj("prompt" :> Str("a cat")),
      Obj(("prompt" :> Str("")) @@ ("raw" :> Bool(TRUE)) @@ ("seed" :> Num(420))
          @@ ("aspect_ratio" :> Str("7:7")) @@ ("image_prompt" :> Str("https://x/in.png"))
          @@ ("output_format" :> Str("png")) @@ ("safety_tolerance" :> Num(0))
          @@ ("image_prompt_strength" :> Num(5))) }

CoreRequests == [name : ToolNames, arguments : CoreArgs]

\* arguments of the requests that exercise validation and defaulting: each
\* field absent, null, or one of a few values (falsy ones included)
PromptChoices == {Absent, Null, Num(70), Str(""), Str("a cat")}
RawChoices == {Absent, Null, Bool(FALSE), Bool(TRUE)}
SeedChoices == {Absent, Null, Num(420)}
AspectRatioChoices == {Absent, Null, Str("16:9"), Str("7:7")}
ImagePromptChoices == {Absent, Str("https://x/in.png")}
OutputFormatChoices == {Absent, Null, Str("png")}
SafetyToleranceChoices == {Absent, Null, Num(0), Num(60)}
ImagePromptStrengthChoices == {Absent, Null, Num(0), Num(5)}

AllArgs ==
    {Undefined} \cup
    { MkObj([prompt |-> p, raw |-> r, seed |-> s, aspect_ratio |-> a,
             image_prompt |-> ip, output_format |-> f, safety_tolerance |-> st,
             image_prompt_strength |-> ips]) :
        p \in PromptChoices, r \in RawChoices, s \in SeedChoices,
        a \in AspectRatioChoices, ip \in ImagePromptChoices,
        f \in OutputFormatChoices, st \in SafetyToleranceChoices,
        ips \in ImagePromptStrengthChoices }

AllRequests == [name : ToolNames, arguments : AllArgs]

PredictionIds == {"p1"}
Uris == {"https://x/img.jpg", "https://x/b.png"}

\* arrays of at most n URIs
RECURSIVE UriSeqs(_)
UriSeqs(n) ==
    IF n = 0 THEN {<<>>}
    ELSE LET shorter == UriSeqs(n - 1)
         IN  shorter \cup {Append(q, Str(u)) : q \in shorter, u \in Uris}

HttpFailures ==
    { [ok |-> FALSE, status |-> 500, statusText |-> "Internal Server Error",
       text |-> "oops", json |-> Undefined],
      [ok |-> FALSE, status |-> 404, statusText |-> "Not Found",
       text |-> "", json |-> Undefined] }

HttpOk(code, statusText, json) ==
    [ok |-> TRUE, status |-> code, statusText |-> statusText, text |-> "", json |-> json]

\* responses of POST /v1/predictions
CreateResponses ==
    HttpFailures \cup
    { HttpOk(201, "Created", Obj(("id" :> Str(p)) @@ ("status" :> Str("starting")))) :
        p \in PredictionIds }

Statuses == {"processing", "succeeded", "failed"}
OutputChoices == {Absent, Null} \cup {Arr(q) : q \in UriSeqs(MaxOutputs)}
ErrorChoices == {Absent, Null, Str(""), Str("NSFW content")}

\* responses of GET /v1/predictions/{id}
StatusResponses(id) ==
    HttpFailures \cup
    { HttpOk(200, "OK", MkObj([id |-> Str(id), status |-> Str(s), output |-> o, error |-> e])) :
        s \in Statuses, o \in OutputChoices, e \in ErrorChoices }

(****************************** program ************************************)
\* the static tool descriptor: name, required fields, and each property's
\* type and default (numbers in tenths)
REPLICATE_TOOL ==
    [ name |-> ToolName,
      description |-> "Generates images using Replicate's Flux 1.1 Pro Ultra model",
      required |-> <<"prompt">>,
      properties |->
        [ prompt |-> [type |-> "string", default |-> Undefined],
          raw |-> [type |-> "boolean", default |-> Bool(FALSE)],
          seed |-> [type |-> "integer", default |-> Undefined],
          aspect_ratio |-> [type |-> "string", default |-> Str("1:1")],
          image_prompt |-> [type |-> "string", default |-> Undefined],
          output_format |-> [type |-> "string", default |-> Str("jpg")],
          safety_tolerance |-> [type |-> "integer", default |-> Num(DefaultSafetyTolerance)],
          image_prompt_strength |->
              [type |-> "number", default |-> Num(DefaultImagePromptStrength)] ] ]

\* isReplicateArgs without the test of the prompt's type
isReplicateArgs_AnyPrompt(args) ==
    /\ TypeOf(args) = "object"
    /\ args # Null
    /\ HasProp(args, "prompt")

\* type guard of the arguments
isReplicateArgs(args) ==
    /\ TypeOf(args) = "object"
    /\ args # Null
    /\ HasProp(args, "prompt")
    /\ TypeOf(Get(args, "prompt")) = "string"

\* requestBody of generateImage, as JSON.stringify serialises it
RequestBody(params) ==
    Stringify(Obj(
        "input" :> Stringify(Obj(
            ("prompt" :> Get(params, "prompt"))
         @@ ("raw" :> Coalesce(Get(params, "raw"), Bool(FALSE)))
         @@ ("seed" :> Get(params, "seed"))
         @@ ("aspect_ratio" :> Coalesce(Get(params, "aspect_ratio"), Str("1:1")))
         @@ ("image_prompt" :> Get(params, "image_prompt"))
         @@ ("output_format" :> Coalesce(Get(params, "output_format"), Str("jpg")))
         @@ ("safety_tolerance" :>
                Coalesce(Get(params, "safety_tolerance"), Num(DefaultSafetyTolerance)))
         @@ ("image_prompt_strength" :>
                Coalesce(Get(params, "image_prompt_strength"),
                         Num(DefaultImagePromptStrength)))))))

\* outcomes of a step of the handler's try block
Throw(message) == [kind |-> "throw", message |-> message, value |-> Undefined]
Return(value) == [kind |-> "return", message |-> "", value |-> value]
Continue == [kind |-> "continue", message |-> "", value |-> Undefined]
UnknownTool == [kind |-> "unknown", message |-> "", value |-> Undefined]

\* the Error thrown on a response that is not ok
RemoteError(response) ==
    Throw("Replicate API error: " \o ToString(response.status) \o " "
          \o response.statusText \o "\n" \o response.text)

\* CreateOutcome without the test of response.ok
CreateOutcome_Unchecked(response) == Continue

\* generateImage after its POST has resolved on `response`
CreateOutcome(response) ==
    IF ~response.ok THEN RemoteError(response) ELSE Continue

\* PollStep without the test of the terminal failure status
PollStep_NoFailed(status) ==
    IF Truthy(Get(status, "error"))
    THEN Throw("Replicate API error: " \o Template(Get(status, "error")))
    ELSE IF /\ Get(status, "status") = Str("succeeded")
            /\ Truthy(Get(status, "output"))
            /\ Len(Get(status, "output").a) > 0
    THEN Return(Get(status, "output").a[1])
    ELSE Continue

\* PollStep returning the last output instead of the first
PollStep_LastOutput(status) ==
    IF Truthy(Get(status, "error"))
    THEN Throw("Replicate API error: " \o Template(Get(status, "error")))
    ELSE IF /\ Get(status, "status") = Str("succeeded")
            /\ Truthy(Get(status, "output"))
            /\ Len(Get(status, "output").a) > 0
    THEN Return(Get(status, "output").a[Len(Get(status, "output").a)])
    ELSE IF Get(status, "status") = Str("failed")
    THEN Throw("Image generation failed")
    ELSE Continue

\* PollStep with the output's length tested against 1 instead of 0
PollStep_LengthOffByOne(status) ==
    IF Truthy(Get(status, "error"))
    THEN Throw("Replicate API error: " \o Template(Get(status, "error")))
    ELSE IF /\ Get(status, "status") = Str("succeeded")
            /\ Truthy(Get(status, "output"))
            /\ Len(Get(status, "output").a) > 1
    THEN Return(Get(status, "output").a[1])
    ELSE IF Get(status, "status") = Str("failed")
    THEN Throw("Image generation failed")
    ELSE Continue

\* PollStep with the success test ahead of the error test
PollStep_SuccessFirst(status) ==
    IF /\ Get(status, "status") = Str("succeeded")
       /\ Truthy(Get(status, "output"))
       /\ Len(Get(status, "output").a) > 0
    THEN Return(Get(status, "output").a[1])
    ELSE IF Truthy(Get(status, "error"))
    THEN Throw("Replicate API error: " \o Template(Get(status, "error")))
    ELSE IF Get(status, "status") = Str("failed")
    THEN Throw("Image generation failed")
    ELSE Continue

\* PollStep with "succeeded" ending the loop whatever the output
PollStep_SucceededIsTerminal(status) ==
    IF Truthy(Get(status, "error"))
    THEN Throw("Replicate API error: " \o Template(Get(status, "error")))
    ELSE IF /\ Get(status, "status") = Str("succeeded")
            /\ Truthy(Get(status, "output"))
            /\ Len(Get(status, "output").a) > 0
    THEN Return(Get(status, "output").a[1])
    ELSE IF Get(status, "status") \in {Str("succeeded"), Str("failed")}
    THEN Throw("Image generation failed")
    ELSE Continue

\* the body of the poll loop after getPredictionStatus has resolved to `status`
PollStep(status) ==
    IF Truthy(Get(status, "error"))
    THEN Throw("Replicate API error: " \o Template(Get(status, "error")))
    ELSE IF /\ Get(status, "status") = Str("succeeded")
            /\ Truthy(Get(status, "output"))
            /\ Len(Get(status, "output").a) > 0
    THEN Return(Get(status, "output").a[1])
    ELSE IF Get(status, "status") = Str("failed")
    THEN Throw("Image generation failed")
    ELSE Continue

\* PollOutcome with a failed read tolerated: the loop goes on to its sleep
PollOutcome_FailureTolerated(response) ==
    IF ~response.ok THEN Continue ELSE PollStep(response.json)

\* getPredictionStatus resolving on `response`, followed by the loop body
PollOutcome(response) ==
    IF ~response.ok THEN RemoteError(response) ELSE PollStep(response.json)

\* the loop condition always true
LoopContinues_Always(n) == n >= 0

\* the loop condition with <= for <
LoopContinues_Inclusive(n) == n <= MAX_ATTEMPTS

\* the loop condition
LoopContinues(n) == n < MAX_ATTEMPTS

TimeoutOutcome == Throw("Timeout waiting for image generation")

\* the success response with the URL alone as its text
SuccessResult_BareUrl(imageUrl) == [isError |-> FALSE, text |-> Template(imageUrl)]

\* the catch block's response without its error flag
ErrorResult_NotFlagged(message) == [isError |-> FALSE, text |-> "Error: " \o message]

\* the unknown-tool response without its error flag
UnknownToolResult_NotFlagged(name) == [isError |-> FALSE, text |-> "Unknown tool: " \o name]

\* the responses the handler returns
SuccessResult(imageUrl) ==
    [isError |-> FALSE, text |-> "Generated image URL: " \o Template(imageUrl)]
UnknownToolResult(name) == [isError |-> TRUE, text |-> "Unknown tool: " \o name]
ErrorResult(message) == [isError |-> TRUE, text |-> "Error: " \o message]

\* Validate with the tool name tested before the arguments
Validate_NameFirst(request) ==
    IF request.name = ToolName
    THEN IF ~Truthy(request.arguments) THEN Throw("No arguments provided")
         ELSE IF ~isReplicateArgs(request.arguments)
         THEN Throw("Invalid arguments for replicate_image_generate")
         ELSE Continue
    ELSE UnknownTool

\* the handler's steps before its first await
Validate(request) ==
    IF ~Truthy(request.arguments) THEN Throw("No arguments provided")
    ELSE IF request.name = ToolName
    THEN IF ~isReplicateArgs(request.arguments)
         THEN Throw("Invalid arguments for replicate_image_generate")
         ELSE Continue
    ELSE UnknownTool

\* what the handler returns once its try block has ended with outcome o; a
\* throw is caught and reported with the Error's message
HandlerResult(request, o) ==
    CASE o.kind = "throw" -> ErrorResult(o.message)
      [] o.kind = "return" -> SuccessResult(o.value)
      [] OTHER -> UnknownToolResult(request.name)

Thrown(o) ==
    IF o.kind = "throw" THEN [thrown |-> TRUE, message |-> o.message] ELSE NoThrow

\* the handler returns: invocation c ends with outcome o
Settle(c, o) ==
    /\ pc' = [pc EXCEPT ![c] = "done"]
    /\ thrown' = [thrown EXCEPT ![c] = Thrown(o)]
    /\ result' = [result EXCEPT ![c] = HandlerResult(req[c], o)]

\* the head of the poll loop with `attempts` = n: the next status-read is
\* issued for the prediction's id, or the loop is left and the timeout thrown
EnterLoop(c, n, id) ==
    IF LoopContinues(n)
    THEN /\ polls' = [polls EXCEPT ![c] = @ + 1]
         /\ polled' = [polled EXCEPT ![c] = @ \cup {id}]
         /\ pc' = [pc EXCEPT ![c] = "poll"]
         /\ UNCHANGED <<thrown, result>>
    ELSE /\ Settle(c, TimeoutOutcome)
         /\ UNCHANGED <<polls, polled>>

(****************************** actions ************************************)
InitWith(calls, requests) ==
    /\ pc = [c \in calls |-> "idle"]
    /\ req \in [calls -> requests]
    /\ sent = [c \in calls |-> <<>>]
    /\ created = [c \in calls |-> NoResp]
    /\ prediction = [c \in calls |-> Undefined]
    /\ attempts = [c \in calls |-> 0]
    /\ polls = [c \in calls |-> 0]
    /\ polled = [c \in calls |-> {}]
    /\ sleeps = [c \in calls |-> 0]
    /\ progress = [c \in calls |-> 0]
    /\ last = [c \in calls |-> NoResp]
    /\ thrown = [c \in calls |-> NoThrow]
    /\ result = [c \in calls |-> NoResult]
    /\ listed = NoList

\* the list-tools handler behind a sleep that blocks the process (a busy wait
\* in the place of setTimeout)
ListTools_BlockedBySleep ==
    /\ \A c \in Calls : pc[c] # "sleep"
    /\ listed' = [tools |-> <<REPLICATE_TOOL>>]
    /\ UNCHANGED <<pc, req, sent, created, prediction, attempts, polls, polled,
                   sleeps, progress, last, thrown, result>>

\* the list-tools handler answering with the descriptor twice
ListTools_Twice ==
    /\ listed' = [tools |-> <<REPLICATE_TOOL, REPLICATE_TOOL>>]
    /\ UNCHANGED <<pc, req, sent, created, prediction, attempts, polls, polled,
                   sleeps, progress, last, thrown, result>>

\* the list-tools handler
ListTools ==
    /\ listed' = [tools |-> <<REPLICATE_TOOL>>]
    /\ UNCHANGED <<pc, req, sent, created, prediction, attempts, polls, polled,
                   sleeps, progress, last, thrown, result>>

\* a finished invocation's slot takes the next call-tool request r
Receive(c, r) ==
    /\ pc[c] = "done"
    /\ pc' = [pc EXCEPT ![c] = "idle"]
    /\ req' = [req EXCEPT ![c] = r]
    /\ sent' = [sent EXCEPT ![c] = <<>>]
    /\ created' = [created EXCEPT ![c] = NoResp]
    /\ prediction' = [prediction EXCEPT ![c] = Undefined]
    /\ attempts' = [attempts EXCEPT ![c] = 0]
    /\ polls' = [polls EXCEPT ![c] = 0]
    /\ polled' = [polled EXCEPT ![c] = {}]
    /\ sleeps' = [sleeps EXCEPT ![c] = 0]
    /\ progress' = [progress EXCEPT ![c] = 0]
    /\ last' = [last EXCEPT ![c] = NoResp]
    /\ thrown' = [thrown EXCEPT ![c] = NoThrow]
    /\ result' = [result EXCEPT ![c] = NoResult]
    /\ UNCHANGED listed

\* the call-tool handler up to its first await: validation, then
\* generateImage up to the POST of the request body
CallTool(c) ==
    /\ pc[c] = "idle"
    /\ LET o == Validate(req[c])
       IN  IF o.kind = "continue"
           THEN /\ sent' = [sent EXCEPT ![c] = Append(@, RequestBody(req[c].arguments))]
                /\ pc' = [pc EXCEPT ![c] = "create"]
                /\ UNCHANGED <<thrown, result>>
           ELSE /\ Settle(c, o)
                /\ UNCHANGED sent
    /\ UNCHANGED <<req, created, prediction, attempts, polls, polled, sleeps,
                   progress, last, listed>>

\* the POST resolves with `response`: a failure is thrown, a success is parsed
\* into `prediction` and the poll loop is entered with attempts = 0
CreateReturn(c, response) ==
    /\ pc[c] = "create"
    /\ created' = [created EXCEPT ![c] = response]
    /\ LET o == CreateOutcome(response)
       IN  IF o.kind = "continue"
           THEN /\ prediction' = [prediction EXCEPT ![c] = response.json]
                /\ attempts' = [attempts EXCEPT ![c] = 0]
                /\ EnterLoop(c, 0, Template(Get(response.json, "id")))
           ELSE /\ Settle(c, o)
                /\ UNCHANGED <<prediction, attempts, polls, polled>>
    /\ UNCHANGED <<req, sent, sleeps, progress, last, listed>>

\* PollReturn with the sleep skipped after the last attempt's in-progress
\* response: the timeout is thrown at once
PollReturn_NoTrailingSleep(c, response) ==
    /\ pc[c] = "poll"
    /\ LET o == PollOutcome(response)
       IN  IF o.kind = "continue" /\ LoopContinues(attempts[c] + 1)
           THEN /\ pc' = [pc EXCEPT ![c] = "sleep"]
                /\ sleeps' = [sleeps EXCEPT ![c] = @ + 1]
                /\ progress' = [progress EXCEPT ![c] = @ + 1]
                /\ last' = [last EXCEPT ![c] = response]
                /\ UNCHANGED <<thrown, result>>
           ELSE IF o.kind = "continue"
           THEN /\ Settle(c, TimeoutOutcome)
                /\ progress' = [progress EXCEPT ![c] = @ + 1]
                /\ last' = [last EXCEPT ![c] = NoResp]
                /\ UNCHANGED sleeps
           ELSE /\ Settle(c, o)
                /\ last' = [last EXCEPT ![c] = response]
                /\ UNCHANGED <<sleeps, progress>>
    /\ UNCHANGED <<req, sent, created, prediction, attempts, polls, polled, listed>>

\* PollReturn with the loop continuing without its sleep
PollReturn_NoSleep(c, response) ==
    /\ pc[c] = "poll"
    /\ LET o == PollOutcome(response)
       IN  IF o.kind = "continue"
           THEN /\ attempts' = [attempts EXCEPT ![c] = @ + 1]
                /\ progress' = [progress EXCEPT ![c] = @ + 1]
                /\ last' = [last EXCEPT ![c] = NoResp]
                /\ EnterLoop(c, attempts[c] + 1, Template(Get(prediction[c], "id")))
           ELSE /\ Settle(c, o)
                /\ last' = [last EXCEPT ![c] = response]
                /\ UNCHANGED <<attempts, progress, polls, polled>>
    /\ UNCHANGED <<req, sent, created, prediction, sleeps, listed>>

\* the status-read resolves with `response`: the loop body runs up to its
\* return, its throw or the start of sleep(POLL_INTERVAL)
PollReturn(c, response) ==
    /\ pc[c] = "poll"
    /\ last' = [last EXCEPT ![c] = response]
    /\ LET o == PollOutcome(response)
       IN  IF o.kind = "continue"
           THEN /\ pc' = [pc EXCEPT ![c] = "sleep"]
                /\ sleeps' = [sleeps EXCEPT ![c] = @ + 1]
                /\ progress' = [progress EXCEPT ![c] = @ + 1]
                /\ UNCHANGED <<thrown, result>>
           ELSE /\ Settle(c, o)
                /\ UNCHANGED <<sleeps, progress>>
    /\ UNCHANGED <<req, sent, created, prediction, attempts, polls, polled, listed>>

\* SleepReturn with `attempts` shared by the invocations (declared outside
\* generateImage): the increment is seen by all of them
SleepReturn_SharedAttempts(c) ==
    /\ pc[c] = "sleep"
    /\ attempts' = [d \in Calls |-> attempts[d] + 1]
    /\ last' = [last EXCEPT ![c] = NoResp]
    /\ EnterLoop(c, attempts[c] + 1, Template(Get(prediction[c], "id")))
    /\ UNCHANGED <<req, sent, created, prediction, sleeps, progress, listed>>

\* the timer of sleep(POLL_INTERVAL) fires: attempts++, the iteration ends
\* (its `status` goes out of scope) and the loop head is evaluated
SleepReturn(c) ==
    /\ pc[c] = "sleep"
    /\ attempts' = [attempts EXCEPT ![c] = @ + 1]
    /\ last' = [last EXCEPT ![c] = NoResp]
    /\ EnterLoop(c, attempts[c] + 1, Template(Get(prediction[c], "id")))
    /\ UNCHANGED <<req, sent, created, prediction, sleeps, progress, listed>>

(*************************** specifications ********************************)
Invocations == {"c1"}

\* one invocation slot serving call after call, over the whole lifecycle
Init == InitWith(Invocations, CoreRequests)

Next ==
    \/ ListTools
    \/ \E c \in Calls, r \in CoreRequests : Receive(c, r)
    \/ \E c \in Calls : CallTool(c)
    \/ \E c \in Calls, response \in CreateResponses : CreateReturn(c, response)
    \/ \E c \in Calls : \E response \in StatusResponses(Template(Get(prediction[c], "id"))) :
          PollReturn(c, response)
    \/ \E c \in Calls : SleepReturn(c)

Spec == Init /\ [][Next]_vars

\* validation and defaulting over every shape of arguments
InitArgs == InitWith(Invocations, AllRequests)

NextArgs == \E c \in Calls : CallTool(c)

SpecArgs == InitArgs /\ [][NextArgs]_vars

(******************************* claims ************************************)
\* vocabulary of the claims, stated on the requests and responses themselves
Done(c) == pc[c] = "done"
NoRemoteCall(c) == sent[c] = <<>> /\ polls[c] = 0 /\ polled[c] = {}
ArgumentsAbsent(request) == request.arguments = Undefined
PromptMissing(request) ==
    \/ ArgumentsAbsent(request)
    \/ "prompt" \notin DOMAIN request.arguments.o
    \/ request.arguments.o["prompt"].t # "string"
StatusOf(response) == Get(response.json, "status")
ErrorText(response) ==
    LET e == Get(response.json, "error")
    IN  IF e.t = "string" THEN e.s ELSE ""
Outputs(response) ==
    LET o == Get(response.json, "output")
    IN  IF o.t = "array" THEN o.a ELSE <<>>

\* C1 as stated: a replicate_image_generate call whose request lacks a string
\* prompt (arguments absent included) is answered isError: true with a message
\* containing "Invalid arguments", and makes no remote call.
C1_AsStated ==
    \A c \in Calls :
        (req[c].name = ToolName /\ PromptMissing(req[c])) =>
            /\ NoRemoteCall(c)
            /\ Done(c) => /\ result[c].isError
                          /\ Contains(result[c].text, "Invalid arguments")

\* C1 amended: such a call makes no remote call and is answered isError: true;
\* the message contains "Invalid arguments" when the arguments are present, and
\* is "Error: No arguments provided" when the arguments are absent.
C1_InvalidArguments ==
    \A c \in Calls :
        (req[c].name = ToolName /\ PromptMissing(req[c])) =>
            /\ NoRemoteCall(c)
            /\ pc[c] \in {"idle", "done"}
            /\ Done(c) =>
                /\ result[c].isError
                /\ IF ArgumentsAbsent(req[c])
                   THEN result[c].text = "Error: No arguments provided"
                   ELSE Contains(result[c].text, "Invalid arguments")

C1_Witness ==
    \E c \in Calls :
        /\ Done(c)
        /\ req[c] = [name |-> ToolName, arguments |-> Obj("prompt" :> Num(70))]
        /\ result[c] =
             [isError |-> TRUE,
              text |-> "Error: Invalid arguments for replicate_image_generate"]

\* the current status-read of c was answered, with HTTP success
Answered(c) == last[c] # NoResp /\ last[c].ok

\* C2 as stated: a status-read response with status "failed" ends the
\* invocation with isError: true and the message "Image generation failed",
\* whether or not the response carries an error text.
C2_AsStated ==
    \A c \in Calls :
        (Answered(c) /\ StatusOf(last[c]) = Str("failed")) =>
            /\ Done(c)
            /\ result[c].isError
            /\ thrown[c].message = "Image generation failed"
            /\ result[c].text = "Error: Image generation failed"

\* C2 amended: a status-read response with status "failed" ends the invocation
\* with isError: true; the message is "Image generation failed" when the
\* response's error field is absent, null or empty, and is "Replicate API
\* error: <error>" when the error field is a non-empty text.
C2_Failed ==
    \A c \in Calls :
        (Answered(c) /\ StatusOf(last[c]) = Str("failed")) =>
            /\ Done(c)
            /\ result[c].isError
            /\ IF ErrorText(last[c]) = ""
               THEN /\ thrown[c].message = "Image generation failed"
                    /\ result[c].text = "Error: Image generation failed"
               ELSE /\ thrown[c].message = "Replicate API error: " \o ErrorText(last[c])
                    /\ result[c].text =
                         "Error: Replicate API error: " \o ErrorText(last[c])

C2_Witness ==
    \E c \in Calls :
        /\ Done(c)
        /\ Answered(c)
        /\ StatusOf(last[c]) = Str("failed")
        /\ ErrorText(last[c]) = ""
        /\ progress[c] = 2
        /\ result[c] = [isError |-> TRUE, text |-> "Error: Image generation failed"]

\* the response ends a run of in-progress responses with success: status
\* "succeeded", at least one output, no error text
Succeeded(response) ==
    /\ response.ok
    /\ StatusOf(response) = Str("succeeded")
    /\ Outputs(response) # <<>>
    /\ ErrorText(response) = ""

\* C3 as stated: when n in-progress responses, 0 <= n < 60, are followed by a
\* response with status "succeeded" and a non-empty output, the invocation ends
\* with isError: false and the text "Generated image URL: <first output URI>",
\* after exactly n + 1 status-reads.
C3_AsStated ==
    \A c \in Calls :
        (Answered(c) /\ StatusOf(last[c]) = Str("succeeded") /\ Outputs(last[c]) # <<>>) =>
            /\ Done(c)
            /\ ~result[c].isError
            /\ result[c].text = "Generated image URL: " \o Outputs(last[c])[1].s
            /\ polls[c] = progress[c] + 1

\* C3 amended: for every n with 0 <= n < 60, when the create call succeeded and
\* n in-progress responses are followed by a response with status "succeeded",
\* a non-empty output and no non-empty error field, the invocation ends with
\* isError: false and the text "Generated image URL: <first output URI>", after
\* exactly n + 1 status-reads.
C3_SucceedsAfterNPlusOnePolls ==
    \A c \in Calls :
        (last[c] # NoResp /\ Succeeded(last[c])) =>
            /\ created[c].ok
            /\ Done(c)
            /\ ~result[c].isError
            /\ result[c].text = "Generated image URL: " \o Outputs(last[c])[1].s
            /\ progress[c] \in 0..(MAX_ATTEMPTS - 1)
            /\ polls[c] = progress[c] + 1

C3_Witness ==
    \E c \in Calls :
        /\ Done(c)
        /\ Succeeded(last[c])
        /\ progress[c] = MAX_ATTEMPTS - 1
        /\ polls[c] = MAX_ATTEMPTS
        /\ result[c] = [isError |-> FALSE, text |-> "Generated image URL: https://x/img.jpg"]

\* C4 as stated: every status-read call, the first one included, is issued
\* out of a suspension.
C4_AsStated ==
    [][\A c \in Calls : polls'[c] = polls[c] + 1 => pc[c] = "sleep"]_vars

\* C4 amended: every status-read call except the first is preceded by one
\* suspension of the fixed interval, so a suspension lies between any two
\* consecutive status-reads; the first status-read follows the create call
\* directly, with no suspension between them.
C4_PollsAfterTheFirstFollowSuspensions ==
    [][\A c \in Calls :
          polls'[c] = polls[c] + 1 =>
              \/ /\ pc[c] = "sleep"
                 /\ polls[c] >= 1
                 /\ sleeps[c] = polls[c]
              \/ /\ pc[c] = "create"
                 /\ polls[c] = 0
                 /\ sleeps[c] = 0]_vars

C4_Witness ==
    \E c \in Calls : pc[c] = "poll" /\ polls[c] = 3 /\ sleeps[c] = 2

\* C5: an invocation never issues more than 60 status-reads; after 60
\* in-progress responses in a row it has issued exactly 60, issues no 61st, and
\* ends with isError: true and the timeout message.
C5_AtMostSixtyPolls ==
    \A c \in Calls :
        /\ polls[c] <= 60
        /\ progress[c] <= 60
        /\ progress[c] = 60 =>
              /\ polls[c] = 60
              /\ pc[c] \in {"sleep", "done"}
              /\ Done(c) =>
                    result[c] = [isError |-> TRUE,
                                 text |-> "Error: Timeout waiting for image generation"]

C5_Witness ==
    \E c \in Calls :
        /\ Done(c)
        /\ progress[c] = 60
        /\ polls[c] = 60
        /\ result[c] = [isError |-> TRUE,
                        text |-> "Error: Timeout waiting for image generation"]

\* C6: when the create call returns a non-success HTTP status the invocation
\* ends at once with isError: true and a message carrying the status code and
\* the response body; it made exactly one create call and makes no status-read.
C6_CreateFailureEndsInvocation ==
    \A c \in Calls :
        (created[c] # NoResp /\ ~created[c].ok) =>
            /\ Done(c)
            /\ result[c].isError
            /\ StartsWith(result[c].text, "Error: Replicate API error: ")
            /\ Contains(result[c].text, ToString(created[c].status))
            /\ Contains(result[c].text, created[c].text)
            /\ Len(sent[c]) = 1
            /\ polls[c] = 0
            /\ polled[c] = {}

C6_Witness ==
    \E c \in Calls :
        /\ Done(c)
        /\ created[c].status = 500
        /\ ~created[c].ok
        /\ polls[c] = 0
        /\ result[c] =
             [isError |-> TRUE,
              text |-> "Error: Replicate API error: 500 Internal Server Error\noops"]

\* the defaults the claims name (numbers in tenths: 2 is 20, 0.1 is 1)
StatedDefaults ==
    [ raw |-> Bool(FALSE), aspect_ratio |-> Str("1:1"), output_format |-> Str("jpg"),
      safety_tolerance |-> Num(20), image_prompt_strength |-> Num(1) ]
ForwardedFields == {"prompt", "seed", "image_prompt"}
ValidRequest(request) == request.name = ToolName /\ ~PromptMissing(request)
\* the `input` of the body of the create call of c
SentInput(c) == sent[c][1].o["input"]

\* C7 as stated: the input sent in the create call carries, for each defaulted
\* field, the supplied value when the field is supplied and the default
\* otherwise; prompt, seed and image_prompt are forwarded unchanged.
C7_AsStated ==
    \A c \in Calls :
        (ValidRequest(req[c]) /\ pc[c] # "idle") =>
            LET args == req[c].arguments.o
            IN  /\ Len(sent[c]) = 1
                /\ \A k \in DOMAIN StatedDefaults :
                      Get(SentInput(c), k) =
                          IF k \in DOMAIN args THEN args[k] ELSE StatedDefaults[k]
                /\ \A k \in ForwardedFields :
                      IF k \in DOMAIN args
                      THEN Get(SentInput(c), k) = args[k]
                      ELSE k \notin DOMAIN SentInput(c).o

\* C7 amended: for every valid request, the input sent in the create call
\* carries, for each of raw, aspect_ratio, output_format, safety_tolerance,
\* image_prompt_strength, the supplied value when it is supplied and not null,
\* and otherwise (omitted or null) false, "1:1", "jpg", 2, 0.1 respectively;
\* prompt, seed and image_prompt are forwarded unchanged with no default; no
\* other field is sent and no non-null value is validated or altered.
C7_DefaultsFieldByField ==
    \A c \in Calls :
        (ValidRequest(req[c]) /\ pc[c] # "idle") =>
            LET args == req[c].arguments.o
            IN  /\ Len(sent[c]) = 1
                /\ DOMAIN sent[c][1].o = {"input"}
                /\ DOMAIN SentInput(c).o \subseteq DOMAIN StatedDefaults \cup ForwardedFields
                /\ \A k \in DOMAIN StatedDefaults :
                      Get(SentInput(c), k) =
                          IF k \in DOMAIN args /\ args[k] # Null
                          THEN args[k]
                          ELSE StatedDefaults[k]
                /\ \A k \in ForwardedFields :
                      IF k \in DOMAIN args
                      THEN Get(SentInput(c), k) = args[k]
                      ELSE k \notin DOMAIN SentInput(c).o

C7_Witness ==
    \E c \in Calls :
        /\ pc[c] = "create"
        /\ Get(req[c].arguments, "raw") = Null
        /\ Get(req[c].arguments, "aspect_ratio") = Str("7:7")
        /\ Get(req[c].arguments, "safety_tolerance") = Num(0)
        /\ ~HasProp(req[c].arguments, "output_format")
        /\ ~HasProp(req[c].arguments, "seed")
        /\ SentInput(c) =
             Obj(("prompt" :> Get(req[c].arguments, "prompt"))
                 @@ ("raw" :> Bool(FALSE))
                 @@ ("aspect_ratio" :> Str("7:7"))
                 @@ ("image_prompt" :> Str("https://x/in.png"))
                 @@ ("output_format" :> Str("jpg"))
                 @@ ("safety_tolerance" :> Num(0))
                 @@ ("image_prompt_strength" :> Num(1)))

\* the error kinds, read off the request and the responses of invocation c
InvalidInputCase(c) ==
    ArgumentsAbsent(req[c]) \/ (req[c].name = ToolName /\ PromptMissing(req[c]))
UnknownToolCase(c) == req[c].name # ToolName
RemoteErrorOnCreate(c) == created[c] # NoResp /\ ~created[c].ok
RemoteErrorOnPoll(c) == last[c] # NoResp /\ ~last[c].ok
GenerationErrorCase(c) ==
    Answered(c) /\ (ErrorText(last[c]) # "" \/ StatusOf(last[c]) = Str("failed"))
TimeoutCase(c) == progress[c] = 60
ErrorCase(c) ==
    \/ InvalidInputCase(c)
    \/ UnknownToolCase(c)
    \/ RemoteErrorOnCreate(c)
    \/ RemoteErrorOnPoll(c)
    \/ GenerationErrorCase(c)
    \/ TimeoutCase(c)

\* C8: no invocation leaves the handler other than by returning a result
\* envelope: every error thrown is caught and returned as isError: true with
\* its message, each error kind ends in a result with isError: true, and after
\* the result the process takes the next call.
C8_ErrorsNeverEscape ==
    \A c \in Calls :
        /\ pc[c] \in {"idle", "create", "poll", "sleep", "done"}
        /\ ~Done(c) => (result[c] = NoResult /\ thrown[c] = NoThrow)
        /\ Done(c) =>
              /\ result[c].isError \in BOOLEAN
              /\ result[c].text # ""
              /\ ErrorCase(c) => result[c].isError
              /\ thrown[c].thrown =>
                    result[c] = [isError |-> TRUE, text |-> "Error: " \o thrown[c].message]
              /\ ENABLED (\E r \in CoreRequests : Receive(c, r))

C8_Witness ==
    \E c \in Calls :
        /\ Done(c)
        /\ RemoteErrorOnPoll(c)
        /\ progress[c] = 1
        /\ thrown[c].thrown
        /\ result[c] = [isError |-> TRUE,
                        text |-> "Error: Replicate API error: 404 Not Found\n"]

\* C9 as stated: every result with isError: true has a text "Error: ..." and
\* every result with isError: false has a text "Generated image URL: ...".
C9_AsStated ==
    \A c \in Calls :
        Done(c) =>
            IF result[c].isError
            THEN StartsWith(result[c].text, "Error: ")
            ELSE StartsWith(result[c].text, "Generated image URL: ")

\* C9 amended: every result with isError: true has a text "Error:
\* <description>" or, for a request naming another tool, "Unknown tool:
\* <name>"; every result with isError: false has a text "Generated image URL:
\* <uri>"; no other text shape is returned by a tool call.
C9_TextShapes ==
    \A c \in Calls :
        Done(c) =>
            IF result[c].isError
            THEN IF UnknownToolCase(c) /\ ~ArgumentsAbsent(req[c])
                 THEN result[c].text = "Unknown tool: " \o req[c].name
                 ELSE /\ StartsWith(result[c].text, "Error: ")
                      /\ Len(result[c].text) > Len("Error: ")
            ELSE \E u \in Uris : result[c].text = "Generated image URL: " \o u

C9_Witness ==
    \E c \in Calls :
        /\ Done(c)
        /\ req[c].name = "other_tool"
        /\ result[c] = [isError |-> TRUE, text |-> "Unknown tool: other_tool"]

\* C10 as stated: a status-read response with status "succeeded" and at least
\* one output URI makes the invocation return the first URI, isError: false.
C10_AsStated ==
    \A c \in Calls :
        (Answered(c) /\ StatusOf(last[c]) = Str("succeeded") /\ Outputs(last[c]) # <<>>) =>
            /\ Done(c)
            /\ result[c] = [isError |-> FALSE,
                            text |-> "Generated image URL: " \o Outputs(last[c])[1].s]

\* C10 amended: a status-read response with status "succeeded", at least one
\* output URI and no non-empty error field makes the invocation return the
\* first URI of the output (isError: false); the other URIs do not appear in
\* the result and the invocation issues no further status-read.
C10_FirstOutputReturned ==
    \A c \in Calls :
        (Answered(c) /\ StatusOf(last[c]) = Str("succeeded") /\ Outputs(last[c]) # <<>>
            /\ ErrorText(last[c]) = "") =>
            LET out == Outputs(last[c])
            IN  /\ Done(c)
                /\ result[c] = [isError |-> FALSE,
                                text |-> "Generated image URL: " \o out[1].s]
                /\ \A i \in 2..Len(out) :
                      out[i] # out[1] => ~Contains(result[c].text, out[i].s)

C10_Witness ==
    \E c \in Calls :
        /\ Done(c)
        /\ Answered(c)
        /\ Outputs(last[c]) = <<Str("https://x/b.png"), Str("https://x/img.jpg")>>
        /\ result[c] = [isError |-> FALSE, text |-> "Generated image URL: https://x/b.png"]

\* C11 as stated: a request naming another tool ends with the unknown-tool
\* result (isError: true, the text naming the tool), whatever its arguments,
\* and makes no remote call.
C11_AsStated ==
    \A c \in Calls :
        req[c].name # ToolName =>
            /\ NoRemoteCall(c)
            /\ Done(c) =>
                  result[c] = [isError |-> TRUE, text |-> "Unknown tool: " \o req[c].name]

\* C11 amended: a request naming another tool makes no remote call and ends
\* with isError: true; with arguments present (of any shape) the text is
\* "Unknown tool: <name>", and with arguments absent it is "Error: No arguments
\* provided", which does not name the tool.
C11_UnknownTool ==
    \A c \in Calls :
        req[c].name # ToolName =>
            /\ NoRemoteCall(c)
            /\ pc[c] \in {"idle", "done"}
            /\ created[c] = NoResp
            /\ Done(c) =>
                  IF ArgumentsAbsent(req[c])
                  THEN /\ result[c] = [isError |-> TRUE,
                                       text |-> "Error: No arguments provided"]
                       /\ ~Contains(result[c].text, req[c].name)
                  ELSE /\ result[c] = [isError |-> TRUE,
                                       text |-> "Unknown tool: " \o req[c].name]
                       /\ ~thrown[c].thrown

C11_Witness ==
    \E c \in Calls :
        /\ Done(c)
        /\ req[c] = [name |-> "other_tool", arguments |-> Obj("prompt" :> Str("a cat"))]
        /\ result[c] = [isError |-> TRUE, text |-> "Unknown tool: other_tool"]
        /\ NoRemoteCall(c)

\* a thin alphabet for the runs where the number of behaviours matters: one
\* valid and one invalid request, and one status-read response of each kind
ThinRequests ==
    { [name |-> ToolName, arguments |-> Obj("prompt" :> Str("a cat"))],
      [name |-> "other_tool", arguments |-> Undefined] }

ThinCreateResponses(id) ==
    { [ok |-> FALSE, status |-> 500, statusText |-> "Internal Server Error",
       text |-> "oops", json |-> Undefined],
      HttpOk(201, "Created", Obj(("id" :> Str(id)) @@ ("status" :> Str("starting")))) }

ThinStatusResponses(id) ==
    { [ok |-> FALSE, status |-> 500, statusText |-> "Internal Server Error",
       text |-> "oops", json |-> Undefined] }
    \cup
    { HttpOk(200, "OK", MkObj([id |-> Str(id), status |-> Str(k[1]), output |-> k[2],
                               error |-> k[3]])) :
        k \in { <<"processing", Absent, Null>>,
                <<"succeeded", Arr(<<>>), Null>>,
                <<"succeeded", Arr(<<Str("https://x/img.jpg")>>), Null>>,
                <<"failed", Null, Null>>,
                <<"processing", Null, Str("NSFW content")>> } }

\* one invocation slot over the thin alphabet
InitLive == InitWith(Invocations, ThinRequests)

NextLive ==
    \/ ListTools
    \/ \E c \in Calls, r \in ThinRequests : Receive(c, r)
    \/ \E c \in Calls : CallTool(c)
    \/ \E c \in Calls, response \in ThinCreateResponses("p1") : CreateReturn(c, response)
    \/ \E c \in Calls :
          \E response \in ThinStatusResponses(Template(Get(prediction[c], "id"))) :
              PollReturn(c, response)
    \/ \E c \in Calls : SleepReturn(c)

\* every remote call and every suspension of an invocation eventually returns,
\* and a received request is eventually handled
Fairness ==
    \A c \in Invocations :
        /\ WF_vars(CallTool(c))
        /\ WF_vars(\E response \in ThinCreateResponses("p1") : CreateReturn(c, response))
        /\ WF_vars(\E response \in ThinStatusResponses(Template(Get(prediction[c], "id"))) :
                      PollReturn(c, response))
        /\ WF_vars(SleepReturn(c))

SpecLive == InitLive /\ [][NextLive]_vars /\ Fairness

\* the job of invocation c has been submitted
Submitted(c) == created[c] # NoResp /\ created[c].ok
SuccessOutcome(c) ==
    /\ ~result[c].isError
    /\ last[c] # NoResp
    /\ Succeeded(last[c])
FailureOutcome(c) ==
    /\ result[c].isError
    /\ RemoteErrorOnPoll(c) \/ GenerationErrorCase(c)
    /\ result[c].text # "Error: Timeout waiting for image generation"
TimeoutOutcome_(c) ==
    /\ result[c].isError
    /\ last[c] = NoResp
    /\ progress[c] = 60
    /\ result[c].text = "Error: Timeout waiting for image generation"
OutcomeCount(c) ==
    Cardinality({k \in {"success", "failure", "timeout"} :
                    \/ k = "success" /\ SuccessOutcome(c)
                    \/ k = "failure" /\ FailureOutcome(c)
                    \/ k = "timeout" /\ TimeoutOutcome_(c)})

\* C12: once the create call has succeeded, and given that every remote call
\* and suspension returns, the invocation reaches a result; that result is
\* exactly one of success, failure and timeout, it is reached after at least 1
\* and at most 60 status-reads, and until then no step takes the invocation
\* out of its poll loop.
C12_RunsToOneOutcome ==
    /\ [](\A c \in Invocations :
            Submitted(c) =>
                /\ pc[c] \in {"poll", "sleep", "done"}
                /\ polls[c] \in 1..60
                /\ Done(c) => OutcomeCount(c) = 1)
    /\ [][\A c \in Invocations :
            pc[c] \in {"poll", "sleep"} =>
                /\ pc'[c] \in {"poll", "sleep", "done"}
                /\ req'[c] = req[c]
                /\ prediction'[c] = prediction[c]]_vars
    /\ \A c \in Invocations : Submitted(c) ~> Done(c)

C12_Witness ==
    \E c \in Calls :
        /\ Done(c)
        /\ Submitted(c)
        /\ TimeoutOutcome_(c)
        /\ polls[c] = 60

(************************ concurrent invocations ***************************)
\* two invocations in flight at once; the remote service names each job with
\* either id, and answers a status-read with one response of each way out of
\* the loop body: continue, return, throw
ConcInvocations == {"c1", "c2"}
ConcPredictionIds == {"p1", "p2"}

ConcStatusResponses(id) ==
    { HttpOk(200, "OK", MkObj([id |-> Str(id), status |-> Str(k[1]), output |-> k[2],
                               error |-> Null])) :
        k \in { <<"processing", Absent>>,
                <<"succeeded", Arr(<<Str("https://x/img.jpg")>>)>>,
                <<"failed", Null>> } }

InitConc == InitWith(ConcInvocations, ThinRequests)

NextConc ==
    \/ ListTools
    \/ \E c \in Calls, r \in ThinRequests : Receive(c, r)
    \/ \E c \in Calls : CallTool(c)
    \/ \E c \in Calls, id \in ConcPredictionIds :
          \E response \in ThinCreateResponses(id) : CreateReturn(c, response)
    \/ \E c \in Calls :
          \E response \in ConcStatusResponses(Template(Get(prediction[c], "id"))) :
              PollReturn(c, response)
    \/ \E c \in Calls : SleepReturn(c)

SpecConc == InitConc /\ [][NextConc]_vars

\* everything invocation c owns
Slot(c) ==
    <<pc[c], req[c], sent[c], created[c], prediction[c], attempts[c], polls[c],
      polled[c], sleeps[c], progress[c], last[c], thrown[c], result[c]>>

\* the job identifier the create call of c returned
OwnId(c) == created[c].json.o["id"].s

\* the result of c as its own request and the responses to its own calls give it
OwnResult(c) ==
    IF ~ValidRequest(req[c])
    THEN result[c].isError /\ NoRemoteCall(c)
    ELSE IF ~created[c].ok
    THEN result[c].isError /\ Len(sent[c]) = 1 /\ polls[c] = 0
    ELSE IF last[c] # NoResp /\ Succeeded(last[c])
    THEN /\ result[c] = [isError |-> FALSE,
                         text |-> "Generated image URL: " \o Outputs(last[c])[1].s]
         /\ polls[c] = progress[c] + 1
    ELSE IF last[c] # NoResp
    THEN result[c].isError /\ polls[c] = progress[c] + 1
    ELSE /\ result[c] = [isError |-> TRUE,
                         text |-> "Error: Timeout waiting for image generation"]
         /\ progress[c] = 60
         /\ polls[c] = 60

\* C13: under every interleaving of two invocations, each keeps its own
\* attempt counter (in step with the responses to its own status-reads) and its
\* own job identifier, reads the status of the identifier its own create call
\* returned and of no other, ends with the result its own request and
\* responses give, and no step of one invocation changes anything of the other.
C13_InvocationsIndependent ==
    /\ [](\A c \in ConcInvocations :
            /\ Submitted(c) => (prediction[c] = created[c].json /\ polled[c] = {OwnId(c)})
            /\ ~Submitted(c) => (polled[c] = {} /\ polls[c] = 0 /\ attempts[c] = 0)
            /\ attempts[c] = IF pc[c] = "sleep" THEN progress[c] - 1 ELSE progress[c]
            /\ pc[c] \in {"poll", "sleep"} => polls[c] = attempts[c] + 1
            /\ Done(c) => OwnResult(c))
    /\ [](\A c, d \in ConcInvocations :
            (/\ Done(c) /\ Done(d)
             /\ req[c] = req[d] /\ created[c] = created[d]
             /\ last[c] = last[d] /\ progress[c] = progress[d]) => result[c] = result[d])
    /\ [][\A c, d \in ConcInvocations :
            (c # d /\ Slot(c)' # Slot(c)) => Slot(d)' = Slot(d)]_vars

C13_Witness ==
    /\ pc["c1"] = "sleep"
    /\ pc["c2"] = "poll"
    /\ attempts["c1"] = 3
    /\ attempts["c2"] = 1
    /\ polled["c1"] = {"p2"}
    /\ polled["c2"] = {"p1"}

\* invocation c waits on its create call, a status-read or a suspension
InFlight(c) == pc[c] \in {"create", "poll", "sleep"}

\* C14: in every state where an invocation is in flight, a list-tools query
\* can be answered at once, with the invocation still in flight after the
\* answer; and so can another tool call: a received request is handled up to
\* its result or its own create call, and a finished slot takes a new request.
C14_ResponsiveWhileInFlight ==
    \A c \in Calls :
        InFlight(c) =>
            /\ ENABLED (/\ ListTools
                        /\ listed' = [tools |-> <<REPLICATE_TOOL>>]
                        /\ Slot(c)' = Slot(c))
            /\ \A d \in Calls \ {c} :
                  /\ pc[d] = "idle" =>
                        ENABLED (/\ CallTool(d)
                                 /\ pc'[d] \in {"create", "done"}
                                 /\ Slot(c)' = Slot(c))
                  /\ pc[d] = "done" =>
                        ENABLED (/\ \E r \in ThinRequests : Receive(d, r)
                                 /\ Slot(c)' = Slot(c))

C14_Witness ==
    /\ pc["c1"] = "sleep"
    /\ attempts["c1"] = 1
    /\ pc["c2"] = "done"
    /\ result["c2"] = [isError |-> TRUE, text |-> "Error: No arguments provided"]
    /\ listed = [tools |-> <<REPLICATE_TOOL>>]

\* C15: a list-tools query is answered with exactly one tool, named
\* replicate_image_generate, always the same static descriptor; the step that
\* answers it changes nothing else: no body is sent, no status-read is issued
\* and no invocation, in flight or not, is altered.
C15_ListToolsIsPure ==
    /\ [](listed # NoList =>
            /\ Len(listed.tools) = 1
            /\ listed.tools[1].name = "replicate_image_generate"
            /\ listed.tools[1].required = <<"prompt">>
            /\ listed = [tools |-> <<REPLICATE_TOOL>>])
    /\ [][listed' # listed =>
            /\ listed' = [tools |-> <<REPLICATE_TOOL>>]
            /\ \A c \in Calls : Slot(c)' = Slot(c)]_vars
    /\ [][(\A c \in Calls : Slot(c)' = Slot(c)) => listed' = [tools |-> <<REPLICATE_TOOL>>]]_vars

C15_Witness ==
    \E c \in Calls :
        /\ pc[c] = "poll"
        /\ polls[c] = 2
        /\ listed = [tools |-> <<REPLICATE_TOOL>>]

\* C16: a status-read answered with a non-success HTTP status, at whichever
\* attempt from the 1st to the 60th, ends the invocation at once with isError:
\* true and the status code in the message; the read is not repeated, no
\* suspension follows it and no further remote call is made.
C16_PollFailureEndsInvocation ==
    \A c \in Calls :
        RemoteErrorOnPoll(c) =>
            /\ Done(c)
            /\ result[c] =
                 [isError |-> TRUE,
                  text |-> "Error: Replicate API error: " \o ToString(last[c].status)
                           \o " " \o last[c].statusText \o "\n" \o last[c].text]
            /\ polls[c] \in 1..60
            /\ polls[c] = progress[c] + 1
            /\ sleeps[c] = progress[c]
            /\ attempts[c] = progress[c]
            /\ Len(sent[c]) = 1

C16_Witness ==
    \E c \in Calls :
        /\ Done(c)
        /\ RemoteErrorOnPoll(c)
        /\ polls[c] = 60
        /\ sleeps[c] = 59
        /\ result[c] =
             [isError |-> TRUE,
              text |-> "Error: Replicate API error: 500 Internal Server Error\noops"]

\* C17: a status-read response carrying a non-empty error text ends the
\* invocation at once with isError: true and a message containing that text,
\* whatever its status, "succeeded" with a non-empty output included; no output
\* URI is returned, no suspension follows and no further status-read is made.
C17_ErrorTextEndsInvocation ==
    \A c \in Calls :
        (Answered(c) /\ ErrorText(last[c]) # "") =>
            /\ Done(c)
            /\ result[c].isError
            /\ thrown[c].message = "Replicate API error: " \o ErrorText(last[c])
            /\ result[c].text = "Error: Replicate API error: " \o ErrorText(last[c])
            /\ Contains(result[c].text, ErrorText(last[c]))
            /\ \A u \in Uris : ~Contains(result[c].text, u)
            /\ polls[c] = progress[c] + 1
            /\ sleeps[c] = progress[c]

C17_Witness ==
    \E c \in Calls :
        /\ Done(c)
        /\ Answered(c)
        /\ StatusOf(last[c]) = Str("succeeded")
        /\ Outputs(last[c]) = <<Str("https://x/img.jpg")>>
        /\ ErrorText(last[c]) = "NSFW content"
        /\ polls[c] = 2
        /\ result[c] = [isError |-> TRUE, text |-> "Error: Replicate API error: NSFW content"]

\* a response that ends the poll loop: a non-empty error text, "succeeded" with
\* at least one output, or "failed"
Terminal(response) ==
    \/ ErrorText(response) # ""
    \/ StatusOf(response) = Str("succeeded") /\ Outputs(response) # <<>>
    \/ StatusOf(response) = Str("failed")

\* C18 as stated: after any status-read response whose status is "succeeded"
\* or "failed", whatever its output and error fields, no further status-read
\* is made in the invocation.
C18_AsStated ==
    [][\A c \in Calls :
         (Answered(c) /\ StatusOf(last[c]) \in {Str("succeeded"), Str("failed")}) =>
             polls'[c] <= polls[c]]_vars

\* C18: a status-read response ends polling when its status is "failed", when
\* its status is "succeeded" and its output is non-empty, or when it carries a
\* non-empty error text: the invocation is over and no further status-read is
\* made. A "succeeded" response with no output and no error text is taken as
\* in progress: a suspension follows it, and the next status-read unless it was
\* the 60th.
C18_TerminalEndsPolling ==
    /\ [](\A c \in Calls :
            Answered(c) =>
                /\ Terminal(last[c]) => Done(c)
                /\ ~Terminal(last[c]) => pc[c] = "sleep" /\ sleeps[c] = polls[c])
    /\ [][\A c \in Calls :
            Answered(c) =>
                /\ Terminal(last[c]) => polls'[c] <= polls[c]
                /\ (~Terminal(last[c]) /\ polls[c] < 60 /\ pc'[c] # pc[c]) =>
                       polls'[c] = polls[c] + 1]_vars

C18_Witness ==
    \E c \in Calls :
        /\ Done(c)
        /\ Answered(c)
        /\ StatusOf(last[c]) = Str("failed")
        /\ ErrorText(last[c]) = ""
        /\ Outputs(last[c]) # <<>>
        /\ polls[c] = 3

\* C19 as stated: in every invocation that reads the status, the number of
\* 2000 ms suspensions equals the number of status-read calls minus one; after
\* 60 in-progress responses the timeout result is returned after 59
\* suspensions, none following the 60th status-read.
C19_AsStated ==
    \A c \in Calls :
        (Done(c) /\ polls[c] > 0) =>
            /\ sleeps[c] = polls[c] - 1
            /\ progress[c] = 60 => sleeps[c] = 59

\* C19: a suspension of 2000 ms follows every in-progress response and nothing
\* else, the 60th included: the number of suspensions equals the number of
\* in-progress responses. It is the number of status-reads minus one while a
\* status-read is outstanding and when the invocation ends on a terminal
\* response or a failed read, and it equals the number of status-reads, 60,
\* when the invocation ends in the timeout.
C19_SuspensionFollowsEachInProgressResponse ==
    /\ [](\A c \in Calls :
            /\ sleeps[c] = progress[c]
            /\ sleeps[c] \in 0..60
            /\ pc[c] = "poll" => sleeps[c] = polls[c] - 1
            /\ pc[c] = "sleep" => sleeps[c] = polls[c] /\ ~Terminal(last[c])
            /\ (Done(c) /\ last[c] # NoResp) => sleeps[c] = polls[c] - 1
            /\ (Done(c) /\ progress[c] = 60) =>
                   /\ polls[c] = 60
                   /\ sleeps[c] = 60
                   /\ result[c] = [isError |-> TRUE,
                                   text |-> "Error: Timeout waiting for image generation"])
    /\ [][\A c \in Calls :
            sleeps'[c] > sleeps[c] =>
                /\ pc[c] = "poll"
                /\ pc'[c] = "sleep"
                /\ sleeps'[c] = sleeps[c] + 1
                /\ Answered(c)' /\ ~Terminal(last[c])']_vars

C19_Witness ==
    \E c \in Calls :
        /\ Done(c)
        /\ TimeoutOutcome_(c)
        /\ polls[c] = 60
        /\ sleeps[c] = 60

\* C20: a result with isError: false is returned only when the tool name is
\* replicate_image_generate, prompt is a string, the create call succeeded and
\* the last status-read response had status "succeeded", a non-empty output and
\* no non-empty error text; the URI in the text is the first element of that
\* response's output.
C20_SuccessOnlyFromSucceededResponse ==
    \A c \in Calls :
        (Done(c) /\ ~result[c].isError) =>
            /\ req[c].name = "replicate_image_generate"
            /\ ~PromptMissing(req[c])
            /\ Submitted(c)
            /\ Len(sent[c]) = 1
            /\ Answered(c)
            /\ StatusOf(last[c]) = Str("succeeded")
            /\ Outputs(last[c]) # <<>>
            /\ ErrorText(last[c]) = ""
            /\ result[c].text = "Generated image URL: " \o Outputs(last[c])[1].s
            /\ thrown[c] = NoThrow

C20_Witness ==
    \E c \in Calls :
        /\ Done(c)
        /\ ~result[c].isError
        /\ polls[c] = 3
        /\ Outputs(last[c]) = <<Str("https://x/b.png"), Str("https://x/img.jpg")>>
        /\ result[c].text = "Generated image URL: https://x/b.png"

====
